---- MODULE Spec2Model ----
(***************************************************************************)
(* Model of the sculpting engine of src/src/main.js: the vertex buffer,    *)
(* the jelly (elastic) buffers, the bounded history stack, the pointer     *)
(* handlers and the animation tick.                                        *)
(*                                                                         *)
(* Numbers are fixed point.  Lengths are in hundredths of a scene unit     *)
(* (1.5 is 150), velocities in hundredths of a unit per second, times in   *)
(* milliseconds, the sculpt strength in percent (0.05 is 5) and the        *)
(* Gaussian factor in thousandths.  Products are divided back with         *)
(* truncation toward zero.                                                 *)
(*                                                                         *)
(* A buffer (Float32Array of 3 floats per vertex) is a sequence of         *)
(* records [x, y, z], one per vertex.  A nullable buffer is <<>> for null  *)
(* and <<b>> for the buffer b.                                             *)
(*                                                                         *)
(* Date.now() is read by the handlers only as Date.now() - sculptStartTime;*)
(* the model keeps that difference as the timer sinceStart, which a        *)
(* pointer-down resets and the passing of wall-clock time advances.  The   *)
(* rotation of the mesh and the drawing calls do not touch the state       *)
(* modelled here and are left out.                                         *)
(***************************************************************************)
EXTENDS Integers, Sequences, FiniteSets, TLC

VARIABLES
    currentMaterial,   \* main.js:81
    currentShape,      \* main.js:82
    historyStack,      \* main.js:83  sequence of buffers, most recent last
    positions,         \* clayMesh.geometry.attributes.position.array
    originalPositions, \* main.js:446
    velocities,        \* main.js:455 nullable buffer
    restPositions,     \* main.js:456 nullable buffer
    mouse,             \* main.js:641 as the point the ray through it hits
    isMouseDown,       \* main.js:642
    isSculpting,       \* main.js:643
    sinceStart,        \* Date.now() - sculptStartTime (main.js:644)
    isInteractingWithGUI, \* main.js:756
    sculptStrength,    \* CONFIG.sculptStrength (main.js:7), percent
    sculptRadius,      \* CONFIG.sculptRadius (main.js:8)
    gesture,           \* history variable: the gesture in progress
    last,              \* history variable: the handler that ran last
    cursorVisible      \* cursorMesh.visible (main.js:623)

vars == <<currentMaterial, currentShape, historyStack, positions,
          originalPositions, velocities, restPositions, mouse, isMouseDown,
          isSculpting, sinceStart, isInteractingWithGUI, sculptStrength,
          sculptRadius, gesture, last, cursorVisible>>

-----------------------------------------------------------------------------
(* Program constants *)

MAX_HISTORY == 20
TapThreshold == 100
MinRadius == 20
MaxRadius == 350
ClayHeight == 500
ClayRadius == 150
DefaultStrength == 5
DefaultRadius == 50
Stiffness == 15
DampingPct == 85
MaxVelocity == 200
BandMargin == 100
\* min and max of the sculpt-strength slider (percent) and of the
\* sculpt-radius slider.
StrengthMin == 1
StrengthMax == 50
RadiusMin == 10
RadiusMax == 200

(* Bounds of the model *)

\* The timers saturate here; it must exceed TapThreshold.
MaxElapsed == 101
\* Snapshots the general specification lets the stack hold before the
\* environment stops starting gestures.
MaxDepth == 2

-----------------------------------------------------------------------------
(* Arithmetic *)

Abs(a) == IF a < 0 THEN -a ELSE a

Min(a, b) == IF a < b THEN a ELSE b

Max(a, b) == IF a > b THEN a ELSE b

\* Division truncating toward zero, b > 0.
TDiv(a, b) == IF a >= 0 THEN a \div b ELSE -((-a) \div b)

RECURSIVE SqrtIter(_, _)
SqrtIter(n, r) ==
    LET r2 == (r + n \div r) \div 2
    IN  IF r2 >= r THEN r ELSE SqrtIter(n, r2)

\* Math.sqrt on non-negative fixed-point squares, rounded down.
Sqrt(n) == IF n = 0 THEN 0 ELSE SqrtIter(n, n)

\* Math.exp(-(dy*dy)/0.1) in thousandths, tabulated every tenth of a unit.
Factor(dy) ==
    LET k == dy \div 10
        table == <<1000, 905, 670, 407, 202, 82, 27, 7, 2>>
    IN  IF k < Len(table) THEN table[k + 1] ELSE 0

\* Math.atan2(z, x), kept as the pair (cos, sin) in thousandths.
Atan2(z, x) ==
    LET r == Sqrt(x * x + z * z)
    IN  IF r = 0 THEN [cos |-> 1000, sin |-> 0]
        ELSE [cos |-> TDiv(x * 1000, r), sin |-> TDiv(z * 1000, r)]

-----------------------------------------------------------------------------
(* Buffers *)

Null == <<>>

Some(b) == <<b>>

Vtx(x, y, z) == [x |-> x, y |-> y, z |-> z]

\* new Float32Array(count * 3)
Zeros(n) == [i \in 1..n |-> Vtx(0, 0, 0)]

\* TypedArray.prototype.set(source): a longer source raises a RangeError and
\* writes nothing; a shorter one overwrites the prefix.
SetFits(target, source) == Len(source) <= Len(target)

SetInto(target, source) ==
    [i \in 1..Len(target) |-> IF i <= Len(source) THEN source[i] ELSE target[i]]

-----------------------------------------------------------------------------
(* Materials and shapes *)

\* MATERIALS: gold, glass and chrome differ from clay only in how they are
\* drawn; "gold" stands for the three.
Materials == {"clay", "gold", "jelly"}

IsJelly(m) == m = "jelly"

\* SHAPES: the cone and the torus have the cylinder's vertex count and are
\* left out.
Shapes == {"cylinder", "sphere", "cube"}

\* createGeometry, sampled at the vertices that lie on the x and z axes (and
\* the poles): two rows of the open cylinder, the poles and the equator of
\* the sphere, the face centres of the box.  The box has a vertex count of
\* its own, as in three.js (4998 against 4225).
createGeometry(shape) ==
    CASE shape = "sphere" ->
            << Vtx(0, (ClayRadius * 12) \div 10, 0),
               Vtx(-((ClayRadius * 12) \div 10), 0, 0),
               Vtx(0, 0, (ClayRadius * 12) \div 10),
               Vtx(0, -((ClayRadius * 12) \div 10), 0) >>
      [] shape = "cube" ->
            << Vtx(ClayRadius, 0, 0), Vtx(-ClayRadius, 0, 0),
               Vtx(0, ClayHeight \div 2, 0), Vtx(0, -(ClayHeight \div 2), 0),
               Vtx(0, 0, ClayRadius), Vtx(0, 0, -ClayRadius) >>
      [] OTHER ->
            << Vtx(0, ClayHeight \div 2, ClayRadius),
               Vtx(ClayRadius, ClayHeight \div 2, 0),
               Vtx(0, 0, ClayRadius),
               Vtx(ClayRadius, 0, 0) >>

-----------------------------------------------------------------------------
(* Jelly physics *)

\* Mutant: no clamp.
Clamp_None(lo, hi, v) == v

Clamp(lo, hi, v) == Max(lo, Min(hi, v))

\* Mutant: the spring pulls toward the axis instead of the rest position.
StepVelocity_TowardAxis(v, rest, pos, delta) ==
    LET sprung == v + TDiv((0 - pos) * Stiffness * delta, 1000)
        damped == TDiv(sprung * DampingPct, 100)
    IN  Max(-MaxVelocity, Min(MaxVelocity, damped))

\* One component of one vertex: spring, damping, clamp.  delta is in ms.
StepVelocity(v, rest, pos, delta) ==
    LET sprung == v + TDiv((rest - pos) * Stiffness * delta, 1000)
        damped == TDiv(sprung * DampingPct, 100)
    IN  Clamp(-MaxVelocity, MaxVelocity, damped)

StepPosition(pos, v, delta) == pos + TDiv(v * delta, 1000)

\* The loop of updateJellyPhysics: the new velocity buffer.
PhysicsVelocities(pos, vel, rest, delta) ==
    [i \in 1..Len(pos) |->
        Vtx(StepVelocity(vel[i].x, rest[i].x, pos[i].x, delta),
            StepVelocity(vel[i].y, rest[i].y, pos[i].y, delta),
            StepVelocity(vel[i].z, rest[i].z, pos[i].z, delta))]

\* The loop of updateJellyPhysics: the new vertex buffer, given the new
\* velocities.
PhysicsPositions(pos, newVel, delta) ==
    [i \in 1..Len(pos) |->
        Vtx(StepPosition(pos[i].x, newVel[i].x, delta),
            StepPosition(pos[i].y, newVel[i].y, delta),
            StepPosition(pos[i].z, newVel[i].z, delta))]

\* Whether updateJellyPhysics gets past its early return.
PhysicsRuns(material, vel) == IsJelly(material) /\ vel # Null

-----------------------------------------------------------------------------
(* Sculpting *)

\* targetRadius of sculpt.
TargetRadius(point) == Max(MinRadius, Min(MaxRadius, Abs(point.x)))

\* dy < CONFIG.sculptRadius for vertex v.
InRange(v, point, radius) == Abs(v.y - point.y) < radius

CurrentRadius(v) == Sqrt(v.x * v.x + v.z * v.z)

NewRadius(v, point, strength) ==
    LET cur == CurrentRadius(v)
        factor == Factor(Abs(v.y - point.y))
    IN  cur + TDiv((TargetRadius(point) - cur) * factor * strength, 100000)

\* Mutant: the cosine written to z and the sine to x.
SculptVertex_SwapAxes(v, point, strength) ==
    LET angle == Atan2(v.z, v.x)
        nr == NewRadius(v, point, strength)
    IN  Vtx(TDiv(angle.sin * nr, 1000), v.y, TDiv(angle.cos * nr, 1000))

\* The vertex after setX / setZ.
SculptVertex(v, point, strength) ==
    LET angle == Atan2(v.z, v.x)
        nr == NewRadius(v, point, strength)
    IN  Vtx(TDiv(angle.cos * nr, 1000), v.y, TDiv(angle.sin * nr, 1000))

\* The impulse added to the velocity of vertex v.
Impulse(v, point) ==
    LET angle == Atan2(v.z, v.x)
        imp == TDiv((TargetRadius(point) - CurrentRadius(v))
                       * Factor(Abs(v.y - point.y)) * 5, 10000)
    IN  Vtx(TDiv(angle.cos * imp, 1000), 0, TDiv(angle.sin * imp, 1000))

\* Mutant: needsUpdate and isSculpting set outside the test of dy.
SculptTouches_Always(pos, point, radius) == Len(pos) > 0

\* needsUpdate at the end of sculpt's loop.
SculptTouches(pos, point, radius) ==
    \E i \in 1..Len(pos) : InRange(pos[i], point, radius)

SculptPositions(pos, point, strength, radius) ==
    [i \in 1..Len(pos) |->
        IF InRange(pos[i], point, radius)
        THEN SculptVertex(pos[i], point, strength)
        ELSE pos[i]]

\* restPositions after sculpt: written whenever the buffer is not null.  A
\* write past the end of a typed array is dropped.
SculptRest(pos, rest, point, strength, radius) ==
    IF rest = Null THEN Null
    ELSE Some([i \in 1..Len(rest[1]) |->
            IF i <= Len(pos) /\ InRange(pos[i], point, radius)
            THEN LET nv == SculptVertex(pos[i], point, strength)
                 IN  Vtx(nv.x, rest[1][i].y, nv.z)
            ELSE rest[1][i]])

\* velocities after sculpt: the impulse is added only inside
\* if (restPositions) and if (velocities).
SculptVelocities(pos, rest, vel, point, radius) ==
    IF rest = Null \/ vel = Null THEN vel
    ELSE Some([i \in 1..Len(vel[1]) |->
            IF i <= Len(pos) /\ InRange(pos[i], point, radius)
            THEN LET imp == Impulse(pos[i], point)
                 IN  Vtx(vel[1][i].x + imp.x, vel[1][i].y, vel[1][i].z + imp.z)
            ELSE vel[1][i]])


-----------------------------------------------------------------------------
(* History, undo, reset *)

\* new Float32Array(positions): a copy, which a value already is.
Copy(buf) == buf

Front(seq) == SubSeq(seq, 1, Len(seq) - 1)

\* Mutant: pop() in place of shift(), which drops the snapshot just pushed.
saveToHistory_Pop(hist, pos) ==
    LET pushed == Append(hist, Copy(pos))
    IN  IF Len(pushed) > MAX_HISTORY THEN Front(pushed) ELSE pushed

\* Mutant: the new snapshot overwriting the top entry of a non-empty stack.
saveToHistory_Overwrite(hist, pos) ==
    IF hist = <<>> THEN <<Copy(pos)>> ELSE Front(hist) \o <<Copy(pos)>>

\* Mutant: the snapshot taken of the vertex buffer as the gesture found it.
saveToHistory_GestureStart(hist, pos) ==
    LET pushed == Append(hist, IF gesture.start = Null THEN Copy(pos)
                               ELSE Copy(gesture.start[1]))
    IN  IF Len(pushed) > MAX_HISTORY THEN Tail(pushed) ELSE pushed

saveToHistory(hist, pos) ==
    LET pushed == Append(hist, Copy(pos))
    IN  IF Len(pushed) > MAX_HISTORY THEN Tail(pushed) ELSE pushed

\* Mutant: the early return on an empty stack reports success.
undo_EmptyReturnsTrue(hist, pos, rest) ==
    [ret |-> "true", hist |-> IF Len(hist) = 0 THEN hist ELSE Front(hist),
     pos |-> IF Len(hist) = 0 THEN pos ELSE hist[Len(hist)], rest |-> rest]

\* undo(): what it returns or throws, and the state it leaves.  ret is
\* "false" or "true" for a return value and "RangeError" when a set() call
\* throws; the statements before the throw have taken effect.
undo(hist, pos, rest) ==
    IF Len(hist) = 0
    THEN [ret |-> "false", hist |-> hist, pos |-> pos, rest |-> rest]
    ELSE LET previousState == hist[Len(hist)]
             popped == Front(hist)
         IN  IF ~SetFits(pos, previousState)
             THEN [ret |-> "RangeError", hist |-> popped, pos |-> pos,
                   rest |-> rest]
             ELSE IF rest = Null
             THEN [ret |-> "true", hist |-> popped,
                   pos |-> SetInto(pos, previousState), rest |-> rest]
             ELSE IF ~SetFits(rest[1], previousState)
             THEN [ret |-> "RangeError", hist |-> popped,
                   pos |-> SetInto(pos, previousState), rest |-> rest]
             ELSE [ret |-> "true", hist |-> popped,
                   pos |-> SetInto(pos, previousState),
                   rest |-> Some(SetInto(rest[1], previousState))]

\* resetShape(): ret is "ok" for a normal return, "RangeError" when
\* restPositions.set throws and "TypeError" when velocities is null at
\* velocities.fill(0).  originalPositions is never null after start-up.
resetShape(hist, pos, orig, rest, vel) ==
    IF ~SetFits(pos, orig)
    THEN [ret |-> "RangeError", hist |-> hist, pos |-> pos, rest |-> rest,
          vel |-> vel]
    ELSE IF rest = Null
    THEN [ret |-> "ok", hist |-> <<>>, pos |-> SetInto(pos, orig),
          rest |-> rest, vel |-> vel]
    ELSE IF ~SetFits(rest[1], orig)
    THEN [ret |-> "RangeError", hist |-> <<>>, pos |-> SetInto(pos, orig),
          rest |-> rest, vel |-> vel]
    ELSE IF vel = Null
    THEN [ret |-> "TypeError", hist |-> <<>>, pos |-> SetInto(pos, orig),
          rest |-> Some(SetInto(rest[1], orig)), vel |-> vel]
    ELSE [ret |-> "ok", hist |-> <<>>, pos |-> SetInto(pos, orig),
          rest |-> Some(SetInto(rest[1], orig)),
          vel |-> Some(Zeros(Len(vel[1])))]

\* Mutant: >= in place of >.
ShouldSave_AtThreshold(sculpting, elapsed) ==
    sculpting /\ elapsed >= TapThreshold

\* The condition of the mouseup and touchend handlers.
ShouldSave(sculpting, elapsed) == sculpting /\ elapsed > TapThreshold

-----------------------------------------------------------------------------
(* History variables *)

Idle == [elapsed |-> 0, touched |-> FALSE, start |-> Null]

\* The handler that ran last and how it ended; for a release, whether the
\* gesture it ended lasted more than the threshold since its first
\* pointer-down, whether one of its sculpt calls wrote a vertex, the vertex
\* buffer at its first pointer-down, and the depth of the history stack when
\* the handler was entered.
Last(op, ret) ==
    [op |-> op, ret |-> ret, long |-> FALSE, touched |-> FALSE,
     before |-> Null, depth |-> 0]

LastRelease(op, ret) ==
    [op |-> op, ret |-> ret, long |-> gesture.elapsed > TapThreshold,
     touched |-> gesture.touched, before |-> gesture.start,
     depth |-> Len(historyStack)]

\* A gesture starts at a pointer-down that finds the pointer released.
GestureAfterDown ==
    IF isMouseDown THEN gesture
    ELSE [elapsed |-> 0, touched |-> FALSE, start |-> Some(positions)]

Advance(t, delta) == Min(t + delta, MaxElapsed)

-----------------------------------------------------------------------------
(* Initial state: the module's top-level code *)

NoHit == [hit |-> FALSE, x |-> 0, y |-> 0]

Hit(x, y) == [hit |-> TRUE, x |-> x, y |-> y]

Init ==
    /\ currentMaterial = "clay"
    /\ currentShape = "cylinder"
    /\ historyStack = <<>>
    /\ positions = createGeometry("cylinder")
    /\ originalPositions = Copy(createGeometry("cylinder"))
    /\ velocities = Null
    /\ restPositions = Null
    /\ mouse = Hit(0, 0)
    /\ isMouseDown = FALSE
    /\ isSculpting = FALSE
    /\ sinceStart = MaxElapsed
    /\ isInteractingWithGUI = FALSE
    /\ sculptStrength = DefaultStrength
    /\ sculptRadius = DefaultRadius
    /\ gesture = Idle
    /\ last = Last("init", "ok")
    /\ cursorVisible = TRUE

-----------------------------------------------------------------------------
(* Pointer and touch handlers *)

MouseMove(p) ==
    /\ mouse' = p
    /\ last' = Last("mousemove", "ok")
    /\ UNCHANGED <<currentMaterial, currentShape, historyStack, positions,
                   originalPositions, velocities, restPositions, isMouseDown,
                   isSculpting, sinceStart, isInteractingWithGUI,
                   sculptStrength, sculptRadius, gesture, cursorVisible>>

MouseDown ==
    /\ isMouseDown' = TRUE
    /\ sinceStart' = 0
    /\ gesture' = GestureAfterDown
    /\ last' = Last("mousedown", "ok")
    /\ UNCHANGED <<currentMaterial, currentShape, historyStack, positions,
                   originalPositions, velocities, restPositions, mouse,
                   isSculpting, isInteractingWithGUI, sculptStrength,
                   sculptRadius, cursorVisible>>

TouchStart(p) ==
    /\ isMouseDown' = TRUE
    /\ sinceStart' = 0
    /\ mouse' = p
    /\ gesture' = GestureAfterDown
    /\ last' = Last("touchstart", "ok")
    /\ UNCHANGED <<currentMaterial, currentShape, historyStack, positions,
                   originalPositions, velocities, restPositions,
                   isSculpting, isInteractingWithGUI, sculptStrength,
                   sculptRadius, cursorVisible>>

TouchMove(p) ==
    /\ mouse' = p
    /\ last' = Last("touchmove", "ok")
    /\ UNCHANGED <<currentMaterial, currentShape, historyStack, positions,
                   originalPositions, velocities, restPositions, isMouseDown,
                   isSculpting, sinceStart, isInteractingWithGUI,
                   sculptStrength, sculptRadius, gesture, cursorVisible>>

\* The body shared by the mouseup and touchend handlers.
Release(op) ==
    /\ historyStack' = IF ShouldSave(isSculpting, sinceStart)
                       THEN saveToHistory(historyStack, positions)
                       ELSE historyStack
    /\ isMouseDown' = FALSE
    /\ isSculpting' = FALSE
    /\ gesture' = Idle
    /\ last' = LastRelease(op, IF ShouldSave(isSculpting, sinceStart)
                               THEN "saved" ELSE "skipped")
    /\ UNCHANGED <<currentMaterial, currentShape, positions,
                   originalPositions, velocities, restPositions, mouse,
                   sinceStart, isInteractingWithGUI, sculptStrength,
                   sculptRadius, cursorVisible>>

MouseUp == Release("mouseup")

TouchEnd == Release("touchend")

\* Mutant: touchcancel with the body of touchend.
TouchCancel_Saves == Release("touchcancel")

\* Mutant: touchcancel clearing the pressed flag only.
TouchCancel_KeepsSculpting ==
    /\ isMouseDown' = FALSE
    /\ gesture' = Idle
    /\ last' = LastRelease("touchcancel", "skipped")
    /\ UNCHANGED <<currentMaterial, currentShape, historyStack, positions,
                   originalPositions, velocities, restPositions, mouse,
                   isSculpting, sinceStart, isInteractingWithGUI,
                   sculptStrength, sculptRadius, cursorVisible>>

TouchCancel ==
    /\ isMouseDown' = FALSE
    /\ isSculpting' = FALSE
    /\ gesture' = Idle
    /\ last' = LastRelease("touchcancel", "skipped")
    /\ UNCHANGED <<currentMaterial, currentShape, historyStack, positions,
                   originalPositions, velocities, restPositions, mouse,
                   sinceStart, isInteractingWithGUI, sculptStrength,
                   sculptRadius, cursorVisible>>

\* mouseenter / touchstart on the settings container.
GuiEnter ==
    /\ ~isInteractingWithGUI
    /\ isInteractingWithGUI' = TRUE
    /\ last' = Last("guienter", "ok")
    /\ UNCHANGED <<currentMaterial, currentShape, historyStack, positions,
                   originalPositions, velocities, restPositions, mouse,
                   isMouseDown, isSculpting, sinceStart, sculptStrength,
                   sculptRadius, gesture, cursorVisible>>

\* mouseleave / touchend / touchcancel on the settings container.
GuiLeave ==
    /\ isInteractingWithGUI
    /\ isInteractingWithGUI' = FALSE
    /\ last' = Last("guileave", "ok")
    /\ UNCHANGED <<currentMaterial, currentShape, historyStack, positions,
                   originalPositions, velocities, restPositions, mouse,
                   isMouseDown, isSculpting, sinceStart, sculptStrength,
                   sculptRadius, gesture, cursorVisible>>


-----------------------------------------------------------------------------
(* The animation tick *)

\* point.y < CONFIG.clayHeight/2 + 1 && point.y > -CONFIG.clayHeight/2 - 1
InBand(point) ==
    /\ point.y < ClayHeight \div 2 + BandMargin
    /\ point.y > -(ClayHeight \div 2) - BandMargin

\* Mutant: animate without the test of point.y.
SculptCalled_NoBandTest(point, down, gui) ==
    point.hit /\ down /\ ~gui

\* The condition under which animate calls sculpt(point).
SculptCalled(point, down, gui) ==
    point.hit /\ InBand(point) /\ down /\ ~gui

\* Mutant: animate calling sculpt before updateJellyPhysics.
Tick_SculptFirst(delta) ==
    LET calls == SculptCalled(mouse, isMouseDown, isInteractingWithGUI)
        touches == calls /\ SculptTouches(positions, mouse, sculptRadius)
        pos1 == IF calls
                THEN SculptPositions(positions, mouse, sculptStrength,
                                     sculptRadius)
                ELSE positions
        rest1 == IF calls
                 THEN SculptRest(positions, restPositions, mouse,
                                 sculptStrength, sculptRadius)
                 ELSE restPositions
        vel1 == IF calls
                THEN SculptVelocities(positions, restPositions, velocities,
                                      mouse, sculptRadius)
                ELSE velocities
        runs == PhysicsRuns(currentMaterial, vel1)
        vel2 == IF runs
                THEN Some(PhysicsVelocities(pos1, vel1[1], rest1[1], delta))
                ELSE vel1
    IN  /\ positions' = IF runs THEN PhysicsPositions(pos1, vel2[1], delta)
                        ELSE pos1
        /\ restPositions' = rest1
        /\ velocities' = vel2
        /\ isSculpting' = (isSculpting \/ touches)
        /\ gesture' = [gesture EXCEPT !.touched = @ \/ touches]
        /\ last' = Last("tick", IF touches THEN "sculpted"
                                ELSE IF calls THEN "missed" ELSE "idle")
        /\ UNCHANGED <<currentMaterial, currentShape, historyStack,
                       originalPositions, mouse, isMouseDown, sinceStart,
                       isInteractingWithGUI, sculptStrength, sculptRadius>>
        /\ cursorVisible' = (mouse.hit /\ InBand(mouse))

\* animate(): delta is clock.getDelta() in ms.
Tick(delta) ==
    LET runs == PhysicsRuns(currentMaterial, velocities)
        vel1 == IF runs
                THEN Some(PhysicsVelocities(positions, velocities[1],
                                            restPositions[1], delta))
                ELSE velocities
        pos1 == IF runs THEN PhysicsPositions(positions, vel1[1], delta)
                ELSE positions
        calls == SculptCalled(mouse, isMouseDown, isInteractingWithGUI)
        touches == calls /\ SculptTouches(pos1, mouse, sculptRadius)
    IN  /\ positions' = IF calls
                        THEN SculptPositions(pos1, mouse, sculptStrength,
                                             sculptRadius)
                        ELSE pos1
        /\ restPositions' = IF calls
                            THEN SculptRest(pos1, restPositions, mouse,
                                            sculptStrength, sculptRadius)
                            ELSE restPositions
        /\ velocities' = IF calls
                         THEN SculptVelocities(pos1, restPositions, vel1,
                                               mouse, sculptRadius)
                         ELSE vel1
        /\ isSculpting' = (isSculpting \/ touches)
        /\ gesture' = [gesture EXCEPT !.touched = @ \/ touches]
        /\ last' = Last("tick", IF touches THEN "sculpted"
                                ELSE IF calls THEN "missed" ELSE "idle")
        /\ UNCHANGED <<currentMaterial, currentShape, historyStack,
                       originalPositions, mouse, isMouseDown, sinceStart,
                       isInteractingWithGUI, sculptStrength, sculptRadius>>
        /\ cursorVisible' = (mouse.hit /\ InBand(mouse))

\* The wall clock moves on by ms milliseconds: Date.now() grows, and with it
\* the time since sculptStartTime and since the gesture's first pointer-down.
Elapse(ms) ==
    /\ sinceStart' = Advance(sinceStart, ms)
    /\ gesture' = IF isMouseDown
                  THEN [gesture EXCEPT !.elapsed = Advance(@, ms)]
                  ELSE gesture
    /\ UNCHANGED <<currentMaterial, currentShape, historyStack, positions,
                   originalPositions, velocities, restPositions, mouse,
                   isMouseDown, isSculpting, isInteractingWithGUI,
                   sculptStrength, sculptRadius, last, cursorVisible>>

-----------------------------------------------------------------------------
(* The settings menu *)

\* initJellyPhysics
InitVelocities(pos) == Some(Zeros(Len(pos)))

\* Mutant: the rest positions are seeded from the original buffer, not from
\* the live one.
InitRest_Original(pos) == Some(Copy(originalPositions))

InitRest(pos) == Some(Copy(pos))

\* Mutant: changeShape without historyStack = [].
ChangeShape_KeepHistory(newShape) ==
    IF newShape = currentShape
    THEN /\ last' = Last("changeShape", "noop")
         /\ UNCHANGED <<currentMaterial, currentShape, historyStack,
                        positions, originalPositions, velocities,
                        restPositions, mouse, isMouseDown, isSculpting,
                        sinceStart, isInteractingWithGUI, sculptStrength,
                        sculptRadius, gesture, cursorVisible>>
    ELSE /\ currentShape' = newShape
         /\ positions' = createGeometry(newShape)
         /\ originalPositions' = Copy(createGeometry(newShape))
         /\ IF IsJelly(currentMaterial)
            THEN /\ velocities' = InitVelocities(createGeometry(newShape))
                 /\ restPositions' = InitRest(createGeometry(newShape))
            ELSE UNCHANGED <<velocities, restPositions, cursorVisible>>
         /\ last' = Last("changeShape", "ok")
         /\ UNCHANGED <<currentMaterial, historyStack, mouse, isMouseDown,
                        isSculpting, sinceStart, isInteractingWithGUI,
                        sculptStrength, sculptRadius, gesture, cursorVisible>>

\* The shape buttons: changeShape(button.dataset.shape).
ChangeShape(newShape) ==
    IF newShape = currentShape
    THEN /\ last' = Last("changeShape", "noop")
         /\ UNCHANGED <<currentMaterial, currentShape, historyStack,
                        positions, originalPositions, velocities,
                        restPositions, mouse, isMouseDown, isSculpting,
                        sinceStart, isInteractingWithGUI, sculptStrength,
                        sculptRadius, gesture, cursorVisible>>
    ELSE /\ currentShape' = newShape
         /\ positions' = createGeometry(newShape)
         /\ originalPositions' = Copy(createGeometry(newShape))
         /\ historyStack' = <<>>
         /\ IF IsJelly(currentMaterial)
            THEN /\ velocities' = InitVelocities(createGeometry(newShape))
                 /\ restPositions' = InitRest(createGeometry(newShape))
            ELSE UNCHANGED <<velocities, restPositions, cursorVisible>>
         /\ last' = Last("changeShape", "ok")
         /\ UNCHANGED <<currentMaterial, mouse, isMouseDown, isSculpting,
                        sinceStart, isInteractingWithGUI, sculptStrength,
                        sculptRadius, gesture, cursorVisible>>

\* Mutant: changeMaterial without its early return.
ChangeMaterial_NoGuard(newMaterial) ==
    /\ currentMaterial' = newMaterial
    /\ IF IsJelly(newMaterial)
       THEN /\ velocities' = InitVelocities(positions)
            /\ restPositions' = InitRest(positions)
       ELSE /\ velocities' = Null
            /\ UNCHANGED restPositions
    /\ last' = Last("changeMaterial",
                    IF newMaterial = currentMaterial THEN "noop" ELSE "ok")
    /\ UNCHANGED <<currentShape, historyStack, positions,
                   originalPositions, mouse, isMouseDown, isSculpting,
                   sinceStart, isInteractingWithGUI, sculptStrength,
                   sculptRadius, gesture, cursorVisible>>

\* The material buttons: changeMaterial(button.dataset.material).
ChangeMaterial(newMaterial) ==
    IF newMaterial = currentMaterial
    THEN /\ last' = Last("changeMaterial", "noop")
         /\ UNCHANGED <<currentMaterial, currentShape, historyStack,
                        positions, originalPositions, velocities,
                        restPositions, mouse, isMouseDown, isSculpting,
                        sinceStart, isInteractingWithGUI, sculptStrength,
                        sculptRadius, gesture, cursorVisible>>
    ELSE /\ currentMaterial' = newMaterial
         /\ IF IsJelly(newMaterial)
            THEN /\ velocities' = InitVelocities(positions)
                 /\ restPositions' = InitRest(positions)
            ELSE /\ velocities' = Null
                 /\ UNCHANGED restPositions
         /\ last' = Last("changeMaterial", "ok")
         /\ UNCHANGED <<currentShape, historyStack, positions,
                        originalPositions, mouse, isMouseDown, isSculpting,
                        sinceStart, isInteractingWithGUI, sculptStrength,
                        sculptRadius, gesture, cursorVisible>>

\* Mutant: the undo button also calling storeOriginalPositions().
ClickUndo_StoresOriginal ==
    LET r == undo(historyStack, positions, restPositions)
    IN  /\ historyStack' = r.hist
        /\ positions' = r.pos
        /\ restPositions' = r.rest
        /\ originalPositions' = Copy(r.pos)
        /\ last' = Last("undo", r.ret)
        /\ UNCHANGED <<currentMaterial, currentShape, velocities, mouse,
                       isMouseDown, isSculpting, sinceStart,
                       isInteractingWithGUI, sculptStrength, sculptRadius,
                       gesture, cursorVisible>>

\* The undo button.
ClickUndo ==
    LET r == undo(historyStack, positions, restPositions)
    IN  /\ historyStack' = r.hist
        /\ positions' = r.pos
        /\ restPositions' = r.rest
        /\ last' = Last("undo", r.ret)
        /\ UNCHANGED <<currentMaterial, currentShape, originalPositions,
                       velocities, mouse, isMouseDown, isSculpting,
                       sinceStart, isInteractingWithGUI, sculptStrength,
                       sculptRadius, gesture, cursorVisible>>

\* The reset button.
ClickReset ==
    LET r == resetShape(historyStack, positions, originalPositions,
                        restPositions, velocities)
    IN  /\ historyStack' = r.hist
        /\ positions' = r.pos
        /\ restPositions' = r.rest
        /\ velocities' = r.vel
        /\ last' = Last("reset", r.ret)
        /\ UNCHANGED <<currentMaterial, currentShape, originalPositions,
                       mouse, isMouseDown, isSculpting, sinceStart,
                       isInteractingWithGUI, sculptStrength, sculptRadius,
                       gesture, cursorVisible>>

\* The sculpt-strength slider: CONFIG.sculptStrength = parseFloat(value).
SetSculptStrength(v) ==
    /\ sculptStrength' = v
    /\ last' = Last("strength", "ok")
    /\ UNCHANGED <<currentMaterial, currentShape, historyStack, positions,
                   originalPositions, velocities, restPositions, mouse,
                   isMouseDown, isSculpting, sinceStart,
                   isInteractingWithGUI, sculptRadius, gesture,
                   cursorVisible>>

\* The sculpt-radius slider: CONFIG.sculptRadius = parseFloat(value).
SetSculptRadius(v) ==
    /\ sculptRadius' = v
    /\ last' = Last("radius", "ok")
    /\ UNCHANGED <<currentMaterial, currentShape, historyStack, positions,
                   originalPositions, velocities, restPositions, mouse,
                   isMouseDown, isSculpting, sinceStart,
                   isInteractingWithGUI, sculptStrength, gesture,
                   cursorVisible>>

-----------------------------------------------------------------------------
(* Specifications *)

\* Where the pointer goes: off the plane, beside the mesh at mid height,
\* between two rows of vertices.
Points == {NoHit, Hit(170, 0), Hit(0, -100)}

\* Frame time in ms (60 frames a second).
FrameMs == 16

\* Steps of the wall clock in ms: as long as the threshold, and just longer.
Elapses == {TapThreshold, TapThreshold + 1}

\* The user starts no further gesture once MaxDepth snapshots are stacked.
MayPress == Len(historyStack) < MaxDepth

\* Spec: materials, shapes, undo and reset around mouse gestures beside the
\* mesh.  The pointer is moved onto the mesh before the first press.
Next ==
    \/ MouseMove(Hit(170, 0))
    \/ (MayPress /\ mouse = Hit(170, 0) /\ MouseDown)
    \/ MouseUp
    \/ Tick(FrameMs)
    \/ Elapse(TapThreshold + 1)
    \/ \E s \in {"cylinder", "cube"} : ChangeShape(s)
    \/ \E m \in Materials : ChangeMaterial(m)
    \/ ClickUndo
    \/ ClickReset

Spec == Init /\ [][Next]_vars

\* SpecGesture: every pointer and touch handler, on the clay material.  The
\* pointer is moved to one of Points before the first press.
NextGesture ==
    \/ \E p \in Points : MouseMove(p)
    \/ (MayPress /\ mouse \in Points /\ MouseDown)
    \/ MouseUp
    \/ \E p \in Points : (MayPress /\ TouchStart(p))
    \/ \E p \in Points : TouchMove(p)
    \/ TouchEnd
    \/ TouchCancel
    \/ GuiEnter
    \/ GuiLeave
    \/ Tick(FrameMs)
    \/ \E ms \in Elapses : Elapse(ms)
    \/ \E s \in {"cylinder", "cube"} : ChangeShape(s)
    \/ ClickUndo
    \/ ClickReset

SpecGesture == Init /\ [][NextGesture]_vars

\* SpecHistory: any number of gestures, so that the stack fills up; one
\* pointer position, which the mesh reaches in two sculpt calls, and the
\* non-elastic materials.
NextHistory ==
    \/ MouseMove(Hit(171, 0))
    \/ (mouse = Hit(171, 0) /\ MouseDown)
    \/ MouseUp
    \/ Tick(FrameMs)
    \/ Elapse(TapThreshold + 1)
    \/ \E s \in {"cylinder", "cube"} : ChangeShape(s)
    \/ \E m \in {"clay", "gold"} : ChangeMaterial(m)
    \/ ClickUndo
    \/ ClickReset

SpecHistory == Init /\ [][NextHistory]_vars

\* The user starts a gesture only while no snapshot is stacked.
MayPressFirst == historyStack = <<>>

\* SpecOwners: every handler that can run between two ticks, with the
\* elastic material available.
NextOwners ==
    \/ MouseMove(Hit(170, 0))
    \/ (MayPressFirst /\ mouse = Hit(170, 0) /\ MouseDown)
    \/ MouseUp
    \/ (MayPressFirst /\ TouchStart(Hit(170, 0)))
    \/ TouchMove(NoHit)
    \/ TouchEnd
    \/ TouchCancel
    \/ GuiEnter
    \/ GuiLeave
    \/ Tick(FrameMs)
    \/ Elapse(TapThreshold + 1)
    \/ \E s \in {"cylinder", "cube"} : ChangeShape(s)
    \/ \E m \in {"clay", "jelly"} : ChangeMaterial(m)
    \/ ClickUndo
    \/ ClickReset

SpecOwners == Init /\ [][NextOwners]_vars

\* Frame time in ms of a display that refreshes 30 times a second.
SlowFrameMs == 33

\* SpecElastic: gestures far from the mesh (the target radius is 3.0, twice
\* the radius of the mesh) with the elastic material available, so that the
\* velocities grow large enough to move the vertices between sculpt calls.
\* A gesture starts on the unsculpted mesh only.
NextElastic ==
    \/ MouseMove(Hit(300, 0))
    \/ (positions = originalPositions /\ mouse = Hit(300, 0) /\ MouseDown)
    \/ MouseUp
    \/ Tick(SlowFrameMs)
    \/ \E m \in {"clay", "jelly"} : ChangeMaterial(m)
    \/ ClickReset

SpecElastic == Init /\ [][NextElastic]_vars

\* Frame time in ms after a stall (a tab that was in the background).
StallMs == 1000

\* Frame times of SpecRest: none, a fast frame, a slow one, a stall.
RestDeltas == {0, FrameMs, SlowFrameMs, StallMs}

\* SpecRest: the mesh is sculpted under the clay material, then the elastic
\* material is chosen with the pointer released and kept, so that under it
\* every vertex is at its rest position with no velocity; the frame time
\* varies.
NextRest ==
    \/ MouseMove(Hit(300, 0))
    \/ (~IsJelly(currentMaterial) /\ mouse = Hit(300, 0) /\ MouseDown)
    \/ MouseUp
    \/ \E d \in RestDeltas : Tick(d)
    \/ \E s \in {"cylinder", "cube"} : ChangeShape(s)
    \/ (~isMouseDown /\ ChangeMaterial("jelly"))
    \/ ClickReset

SpecRest == Init /\ [][NextRest]_vars

\* Values the slider handlers are given: the ends of the sliders' ranges and
\* a value beyond each.
StrengthInputs == {StrengthMin, StrengthMax, StrengthMax + 30}

RadiusInputs == {RadiusMin, RadiusMax, RadiusMax + 100}

\* SpecTool: tool-parameter updates around mouse gestures under the clay
\* material.
NextTool ==
    \/ MouseMove(Hit(170, 0))
    \/ (mouse = Hit(170, 0) /\ MouseDown)
    \/ MouseUp
    \/ Tick(FrameMs)
    \/ \E v \in StrengthInputs : SetSculptStrength(v)
    \/ \E v \in RadiusInputs : SetSculptRadius(v)

SpecTool == Init /\ [][NextTool]_vars

\* Where the pointer goes in SpecAngle: beside the mesh at mid height, and
\* inside the mesh just below its top.
AnglePoints == {Hit(170, 0), Hit(30, 240)}

\* SpecAngle: gestures that widen and that narrow the mesh, on every shape
\* under the clay material, with the sculpt strength at either end of its
\* slider.  A gesture starts on the unsculpted mesh only.
NextAngle ==
    \/ \E p \in AnglePoints : MouseMove(p)
    \/ ( /\ positions = originalPositions
         /\ mouse \in AnglePoints
         /\ MouseDown )
    \/ MouseUp
    \/ Tick(FrameMs)
    \/ \E v \in {StrengthMin, StrengthMax} : SetSculptStrength(v)
    \/ \E s \in Shapes : ChangeShape(s)
    \/ ClickReset

SpecAngle == Init /\ [][NextAngle]_vars

\* Where the pointer goes in SpecCutoff: off the plane, beside the mesh at
\* mid height, and beside it exactly one influence radius below the row of
\* vertices at mid height.
CutoffPoints == {NoHit, Hit(170, 0), Hit(170, -DefaultRadius)}

\* SpecCutoff: mouse gestures that reach a row of vertices and gestures that
\* reach none, under the clay and the elastic material.
NextCutoff ==
    \/ \E p \in CutoffPoints : MouseMove(p)
    \/ (MayPressFirst /\ mouse \in CutoffPoints /\ MouseDown)
    \/ MouseUp
    \/ Tick(FrameMs)
    \/ Elapse(TapThreshold + 1)
    \/ \E m \in {"clay", "jelly"} : ChangeMaterial(m)
    \/ ClickUndo

SpecCutoff == Init /\ [][NextCutoff]_vars

\* The mesh is at rest: no jelly velocity is left.
AtRest ==
    IF velocities = Null THEN TRUE
    ELSE \A i \in 1..Len(velocities[1]) : velocities[1][i] = Vtx(0, 0, 0)

\* The vertex buffer has not changed since the last snapshot was pushed (or
\* since the shape was created, when there is no snapshot).
Untouched ==
    IF historyStack = <<>> THEN positions = originalPositions
    ELSE positions = historyStack[Len(historyStack)]

\* Gestures on a mesh that keeps moving under its snapshots.  A gesture
\* starts on an untouched mesh at rest: near the mesh while the material is
\* clay, far from it once the material is jelly, so that the jelly steps
\* move the vertices during the gesture and after it.  Undo is clicked
\* between gestures, on a mesh at rest.
NextCopies ==
    \/ \E p \in {Hit(170, 0), Hit(300, 0)} : ~isMouseDown /\ MouseMove(p)
    \/ /\ MayPress /\ AtRest /\ Untouched
       /\ mouse = IF IsJelly(currentMaterial) THEN Hit(300, 0)
                  ELSE Hit(170, 0)
       /\ MouseDown
    \/ MouseUp
    \/ Tick(SlowFrameMs)
    \/ isMouseDown /\ Elapse(TapThreshold + 1)
    \/ ~isMouseDown /\ ChangeMaterial("jelly")
    \/ ~isMouseDown /\ AtRest /\ ClickUndo

SpecCopies == Init /\ [][NextCopies]_vars

\* SpecStall: the gestures of SpecElastic, where the first tick after the
\* release that ends a sculpting gesture may come after a stall of StallMs
\* (the tab was in the background and requestAnimationFrame did not fire).
\* Frame times of SpecStall.
StallDeltas == {SlowFrameMs, StallMs}

NextStall ==
    \/ MouseMove(Hit(300, 0))
    \/ (positions = originalPositions /\ mouse = Hit(300, 0) /\ MouseDown)
    \/ MouseUp
    \/ Tick(SlowFrameMs)
    \/ last.op = "mouseup" /\ last.touched /\ Tick(StallMs)
    \/ ChangeMaterial("jelly")
    \/ ClickReset

SpecStall == Init /\ [][NextStall]_vars

\* Where the pointer ray lands in SpecCursor: off the reference plane, beside
\* the mesh, and on the plane at the edge of the band, where point.y equals
\* clayHeight/2 + 1.
CursorPoints == {NoHit, Hit(170, 0), Hit(170, ClayHeight \div 2 + BandMargin)}

\* SpecCursor: the pointer moves in and out of the band, pressed or not,
\* over the settings menu or not.  The mouse button goes down only after
\* the pointer has moved to one of these points.
NextCursor ==
    \/ \E p \in CursorPoints : MouseMove(p)
    \/ mouse \in CursorPoints /\ MouseDown
    \/ MouseUp
    \/ \E p \in CursorPoints : TouchStart(p)
    \/ \E p \in CursorPoints : TouchMove(p)
    \/ TouchEnd
    \/ GuiEnter
    \/ GuiLeave
    \/ Tick(FrameMs)

SpecCursor == Init /\ [][NextCursor]_vars

-----------------------------------------------------------------------------
(* C1 *)

\* C1: the history stack never holds more than MAX_HISTORY snapshots, and a
\* snapshot saved by a release handler onto a full stack drops exactly the
\* oldest entry: the other 19 keep their order and the copy of the vertex
\* buffer comes last.
C1_HistoryBounded ==
    /\ Len(historyStack) <= MAX_HISTORY
    /\ [][ /\ Len(historyStack') <= MAX_HISTORY
           /\ ( /\ MouseUp \/ TouchEnd
                /\ ShouldSave(isSculpting, sinceStart)
                /\ Len(historyStack) = MAX_HISTORY )
              => historyStack' = Tail(historyStack) \o <<positions>> ]_vars

\* A release has just saved onto a full stack whose oldest entry differed
\* from the one after it, and the stack is full again.
C1_Witness ==
    /\ last.ret = "saved"
    /\ last.depth = MAX_HISTORY
    /\ Len(historyStack) = MAX_HISTORY
    /\ historyStack[1] # historyStack[MAX_HISTORY]

-----------------------------------------------------------------------------
(* C2 *)

\* C2: when a release has committed a gesture that changed the mesh, an
\* undo() that follows it leaves the vertex buffer as it was when that
\* gesture began.
C2_UndoRevertsGesture ==
    [][ ( /\ last.ret = "saved"
          /\ last.before # Some(positions)
          /\ ClickUndo )
        => Some(positions') = last.before ]_vars

-----------------------------------------------------------------------------
(* C3 *)

\* C3: undo() on an empty history stack returns false and leaves the vertex
\* buffer, restPositions, velocities and the history stack as they were.
C3_UndoEmpty ==
    [][ (ClickUndo /\ Len(historyStack) = 0)
        => /\ last'.ret = "false"
           /\ UNCHANGED <<positions, restPositions, velocities,
                          historyStack>> ]_vars

\* undo() has just returned false on a sculpted mesh with elastic buffers.
C3_Witness ==
    /\ last.op = "undo"
    /\ last.ret = "false"
    /\ historyStack = <<>>
    /\ positions # originalPositions
    /\ restPositions # Null
    /\ velocities # Null

-----------------------------------------------------------------------------
(* C4 *)

\* C4: undo() on a non-empty history stack removes exactly the most recent
\* snapshot, returns true, and leaves the vertex buffer equal to that
\* snapshot; when restPositions exists it equals the snapshot too.
C4_UndoRestores ==
    [][ (ClickUndo /\ Len(historyStack) > 0)
        => /\ historyStack' = Front(historyStack)
           /\ last'.ret = "true"
           /\ positions' = historyStack[Len(historyStack)]
           /\ restPositions' # Null
                => restPositions' = Some(historyStack[Len(historyStack)])
      ]_vars

-----------------------------------------------------------------------------
(* C5 *)

AllZero(buf) == \A i \in 1..Len(buf) : buf[i] = Vtx(0, 0, 0)

\* C5: after resetShape() the vertex buffer equals the original buffer, the
\* history stack is empty, and when the elastic buffers exist every velocity
\* is zero and restPositions equals the original buffer.
C5_ResetRestores ==
    last.op = "reset"
    => /\ positions = originalPositions
       /\ historyStack = <<>>
       /\ velocities # Null => AllZero(velocities[1])
       /\ restPositions # Null => restPositions = Some(originalPositions)

-----------------------------------------------------------------------------
(* C6 *)

\* C6: resetShape() and undo() return normally in every reachable state.
C6_NoException ==
    last.op \in {"undo", "reset"} => last.ret \in {"true", "false", "ok"}

-----------------------------------------------------------------------------
(* C7 *)

\* C7: restPositions and velocities, when present, have the length of the
\* vertex buffer.
C7_ElasticLengths ==
    /\ restPositions # Null => Len(restPositions[1]) = Len(positions)
    /\ velocities # Null => Len(velocities[1]) = Len(positions)

-----------------------------------------------------------------------------
(* C8 *)

\* C8: velocities and restPositions are both present when the current
\* material is elastic and both absent when it is not.
C8_ElasticFollowsMaterial ==
    IF IsJelly(currentMaterial)
    THEN velocities # Null /\ restPositions # Null
    ELSE velocities = Null /\ restPositions = Null

-----------------------------------------------------------------------------
(* C9 *)

-----------------------------------------------------------------------------
(* C10 *)

\* C10: a gesture that has lasted more than the threshold and in which a
\* sculpt call wrote a vertex is saved when mouseup or touchend ends it.
C10_LongGestureSaved ==
    (last.op \in {"mouseup", "touchend"} /\ last.long /\ last.touched)
    => last.ret = "saved"

-----------------------------------------------------------------------------
(* C11 *)

\* C11: changeShape with a shape other than the current one leaves the
\* vertex buffer equal to the new shape's generated geometry, the original
\* buffer equal to it, the history stack empty and, when the current
\* material is elastic, restPositions equal to the new buffer and velocities
\* all zero and of its length.
C11_ChangeShapeRegenerates ==
    [][ \A s \in Shapes :
          (s # currentShape /\ ChangeShape(s))
          => /\ positions' = createGeometry(s)
             /\ originalPositions' = positions'
             /\ historyStack' = <<>>
             /\ IsJelly(currentMaterial)
                  => /\ restPositions' = Some(positions')
                     /\ velocities' = Some(Zeros(Len(positions'))) ]_vars

\* changeShape has just replaced the mesh by the cube under the elastic
\* material.
C11_Witness ==
    /\ last.op = "changeShape"
    /\ last.ret = "ok"
    /\ IsJelly(currentMaterial)
    /\ currentShape = "cube"
    /\ positions = createGeometry("cube")
    /\ historyStack = <<>>
    /\ restPositions = Some(positions)
    /\ velocities = Some(Zeros(Len(positions)))

-----------------------------------------------------------------------------
(* C12 *)

\* C12: changeMaterial with a material other than the current one leaves the
\* vertex buffer, the original buffer and the history stack as they were;
\* when the new material is elastic, restPositions becomes a copy of the
\* vertex buffer and every velocity zero.
C12_ChangeMaterialFrame ==
    [][ \A m \in Materials :
          (m # currentMaterial /\ ChangeMaterial(m))
          => /\ UNCHANGED <<positions, originalPositions, historyStack>>
             /\ IsJelly(m)
                  => /\ restPositions' = Some(positions)
                     /\ velocities' = Some(Zeros(Len(positions))) ]_vars

\* changeMaterial has just switched to the elastic material on a sculpted
\* mesh with a snapshot on the stack.
C12_Witness ==
    /\ last.op = "changeMaterial"
    /\ last.ret = "ok"
    /\ IsJelly(currentMaterial)
    /\ positions # originalPositions
    /\ historyStack # <<>>
    /\ restPositions = Some(positions)
    /\ velocities = Some(Zeros(Len(positions)))

-----------------------------------------------------------------------------
(* C13 *)

\* C13: changeShape with the current shape and changeMaterial with the
\* current material change none of the vertex buffer, the original buffer,
\* the history stack, the elastic buffers, the current shape and the current
\* material.
C13_SameChoiceNoOp ==
    [][ ( \/ \E s \in Shapes : s = currentShape /\ ChangeShape(s)
          \/ \E m \in Materials : m = currentMaterial /\ ChangeMaterial(m) )
        => UNCHANGED <<positions, originalPositions, historyStack,
                       velocities, restPositions, currentShape,
                       currentMaterial>> ]_vars

\* changeMaterial has just been called with the current, elastic material
\* while a snapshot is stacked and the mesh is moving.
C13_Witness ==
    /\ last.op = "changeMaterial"
    /\ last.ret = "noop"
    /\ IsJelly(currentMaterial)
    /\ historyStack # <<>>
    /\ velocities # Null
    /\ ~AllZero(velocities[1])

-----------------------------------------------------------------------------
(* C14 *)

\* C14: the vertex buffer, the elastic buffers and the history stack are
\* written by the tick only: no handler that runs between ticks changes any
\* of them.
C14_OnlyTickWrites ==
    [][ ( \/ positions' # positions
          \/ velocities' # velocities
          \/ restPositions' # restPositions
          \/ historyStack' # historyStack )
        => last'.op = "tick" ]_vars

\* C14 as amended: the vertex buffer and the elastic buffers are written only
\* by the tick and by the undo, reset, shape and material handlers; the
\* history stack only by the mouseup and touchend handlers and by the undo,
\* reset and shape handlers, never by the tick.  The pointer-down,
\* pointer-move, touchcancel and menu enter/leave handlers write none of the
\* three.
C14_Writers ==
    [][ /\ ( \/ positions' # positions
             \/ velocities' # velocities
             \/ restPositions' # restPositions )
           => last'.op \in {"tick", "undo", "reset", "changeShape",
                            "changeMaterial"}
        /\ historyStack' # historyStack
           => last'.op \in {"mouseup", "touchend", "undo", "reset",
                            "changeShape"} ]_vars

\* A mouseup has just pushed a snapshot while the elastic buffers exist and
\* the mesh is moving.
C14_Witness ==
    /\ last.op = "mouseup"
    /\ last.ret = "saved"
    /\ Len(historyStack) = last.depth + 1
    /\ velocities # Null
    /\ ~AllZero(velocities[1])
    /\ restPositions # Null

-----------------------------------------------------------------------------
(* C15 *)

\* C15: a tick integrates the elastic buffers first and sculpts afterwards,
\* on the integrated buffers and with the pointer as it stands at the tick,
\* in one step; under the elastic material the integration is part of every
\* tick, pressed or not.
C15_TickOrder ==
    [][ Tick(SlowFrameMs)
        => LET integrated == IsJelly(currentMaterial) /\ velocities # Null
               vel1 == IF integrated
                       THEN Some(PhysicsVelocities(positions, velocities[1],
                                                   restPositions[1], SlowFrameMs))
                       ELSE velocities
               pos1 == IF integrated
                       THEN PhysicsPositions(positions, vel1[1],
                                             SlowFrameMs)
                       ELSE positions
               pressed == SculptCalled(mouse, isMouseDown,
                                       isInteractingWithGUI)
           IN  /\ IsJelly(currentMaterial) => integrated
               /\ ~pressed => positions' = pos1 /\ velocities' = vel1
               /\ pressed
                  => /\ positions' = SculptPositions(pos1, mouse,
                                          sculptStrength, sculptRadius)
                     /\ velocities' = SculptVelocities(pos1, restPositions,
                                          vel1, mouse, sculptRadius)
                     /\ restPositions' = SculptRest(pos1, restPositions,
                                          mouse, sculptStrength,
                                          sculptRadius) ]_vars

\* A tick under the elastic material, with the pointer released, has just
\* integrated a mesh that is moving away from its rest positions.
C15_Witness ==
    /\ last.op = "tick"
    /\ last.ret = "idle"
    /\ IsJelly(currentMaterial)
    /\ ~isMouseDown
    /\ velocities # Null
    /\ ~AllZero(velocities[1])
    /\ Some(positions) # restPositions

-----------------------------------------------------------------------------
(* C16 *)

\* C16: when every vertex is at its rest position and every velocity is
\* zero, an integration step of any frame time leaves the vertex buffer,
\* restPositions and velocities as they are.
C16_FixedPoint ==
    [][ ( /\ PhysicsRuns(currentMaterial, velocities)
          /\ restPositions = Some(positions)
          /\ AllZero(velocities[1])
          /\ ~SculptCalled(mouse, isMouseDown, isInteractingWithGUI)
          /\ \E d \in RestDeltas : Tick(d) )
        => UNCHANGED <<positions, restPositions, velocities>> ]_vars

\* A tick has just run under the elastic material on a sculpted mesh at
\* rest.
C16_Witness ==
    /\ last.op = "tick"
    /\ IsJelly(currentMaterial)
    /\ ~isMouseDown
    /\ positions # originalPositions
    /\ restPositions = Some(positions)
    /\ velocities # Null
    /\ AllZero(velocities[1])

-----------------------------------------------------------------------------
(* C17 *)

-----------------------------------------------------------------------------
(* C18 *)

\* The vertex buffer a tick hands to sculpt: the one updateJellyPhysics
\* leaves.
BeforeSculpt ==
    IF PhysicsRuns(currentMaterial, velocities)
    THEN PhysicsPositions(positions,
             PhysicsVelocities(positions, velocities[1], restPositions[1],
                               FrameMs),
             FrameMs)
    ELSE positions

\* C18: a sculpt call leaves every vertex at the angle atan2(z, x) and at
\* the height y it had when the call began.
C18_AnglePreserved ==
    [][ ( /\ Tick(FrameMs)
          /\ SculptCalled(mouse, isMouseDown, isInteractingWithGUI) )
        => \A i \in 1..Len(positions) :
              /\ Atan2(positions'[i].z, positions'[i].x)
                   = Atan2(BeforeSculpt[i].z, BeforeSculpt[i].x)
              /\ positions'[i].y = BeforeSculpt[i].y ]_vars

\* A sculpt call has just widened the cube: its vertices on the negative x
\* and z axes have moved outward and are still on them.
C18_Witness ==
    /\ last.op = "tick"
    /\ last.ret = "sculpted"
    /\ currentShape = "cube"
    /\ positions[2].x < originalPositions[2].x
    /\ positions[2].z = 0
    /\ positions[6].z < originalPositions[6].z
    /\ positions[6].x = 0

-----------------------------------------------------------------------------
(* C19 *)

\* C19: while the pointer is held at one target and every tick sculpts, the
\* radius of each vertex within the influence radius is, after a sculpt
\* call, no farther from targetRadius than it was after the call before,
\* and on the same side of it; under the elastic material too, where
\* updateJellyPhysics runs between the two calls.
C19_MonotoneApproach ==
    [][ ( /\ last.op = "tick"
          /\ last.ret = "sculpted"
          /\ Tick(SlowFrameMs)
          /\ last'.ret = "sculpted" )
        => \A i \in 1..Len(positions) :
              InRange(positions[i], mouse, sculptRadius)
              => LET target == TargetRadius(mouse)
                     before == CurrentRadius(positions[i])
                     after == CurrentRadius(positions'[i])
                 IN  /\ Abs(target - after) <= Abs(target - before)
                     /\ (target - before) * (target - after) >= 0 ]_vars

-----------------------------------------------------------------------------
(* C20 *)

\* The velocities a tick hands to sculpt.
BeforeSculptVelocities ==
    IF PhysicsRuns(currentMaterial, velocities)
    THEN Some(PhysicsVelocities(positions, velocities[1], restPositions[1],
                                FrameMs))
    ELSE velocities

\* C20: a sculpt call leaves unchanged every vertex whose height differs
\* from the target's by the influence radius or more; a call that finds no
\* vertex within the influence radius changes neither the vertex buffer nor
\* the elastic buffers, does not mark the gesture as sculpting, and skips
\* the block that marks the buffer dirty and requests haptic and sound
\* feedback (the tick then ends as "missed").
C20_InfluenceCutoff ==
    [][ ( /\ Tick(FrameMs)
          /\ SculptCalled(mouse, isMouseDown, isInteractingWithGUI) )
        => /\ \A i \in 1..Len(positions) :
                Abs(BeforeSculpt[i].y - mouse.y) >= sculptRadius
                => positions'[i] = BeforeSculpt[i]
           /\ ( \A i \in 1..Len(positions) :
                    Abs(BeforeSculpt[i].y - mouse.y) >= sculptRadius )
              => /\ positions' = BeforeSculpt
                 /\ velocities' = BeforeSculptVelocities
                 /\ UNCHANGED restPositions
                 /\ isSculpting' = isSculpting
                 /\ gesture'.touched = gesture.touched
                 /\ last'.ret = "missed" ]_vars

\* A sculpt call one influence radius below the sculpted row has just found
\* no vertex, after an earlier call had moved that row and left the top row
\* alone; the elastic buffers exist.
C20_Witness ==
    /\ last.op = "tick"
    /\ last.ret = "missed"
    /\ isMouseDown
    /\ ~isSculpting
    /\ mouse = Hit(170, -DefaultRadius)
    /\ positions[3] # originalPositions[3]
    /\ positions[1] = originalPositions[1]
    /\ restPositions # Null
    /\ velocities # Null

-----------------------------------------------------------------------------
(* C21 *)

\* C21: the original buffer is written only at shape creation.  It always
\* holds the vertices the current shape was created with, and a step changes
\* its contents only if it is a changeShape to a different shape: ticks
\* (sculpt calls and jelly steps), releases (saveToHistory), undo, reset and
\* changeMaterial leave it as it is.
C21_OriginalWrittenAtCreation ==
    /\ originalPositions = createGeometry(currentShape)
    /\ [][ /\ originalPositions' = createGeometry(currentShape')
           /\ originalPositions' # originalPositions
                => /\ last'.op = "changeShape"
                   /\ last'.ret = "ok"
                   /\ currentShape' # currentShape ]_vars

\* An undo has put back a snapshot of a sculpted mesh while the jelly buffers
\* exist, and the original buffer still holds the unsculpted shape.
C21_Witness ==
    /\ last.op = "undo"
    /\ last.ret = "true"
    /\ restPositions # Null
    /\ positions # originalPositions
    /\ originalPositions = createGeometry(currentShape)

-----------------------------------------------------------------------------
(* C22 *)

-----------------------------------------------------------------------------
(* C23 *)

\* The longest time step, in ms, for which the explicit integration is
\* stable: stiffness * delta < 2 with delta in seconds.
StableMaxMs == (2 * 1000 - 1) \div Stiffness

\* C23: the jelly step never integrates with an unbounded time step.  Every
\* tick leaves the state that a tick with some elapsed time of at most
\* StableMaxMs leaves, however long the stall before it was.
C23_DeltaClamped ==
    [][ last'.op = "tick" => \E d \in 0..StableMaxMs : Tick(d) ]_vars

-----------------------------------------------------------------------------
(* C24 *)

\* Every component of vertex a differs from that of vertex b by at most m.
Within(a, b, m) ==
    /\ Abs(a.x - b.x) <= m
    /\ Abs(a.y - b.y) <= m
    /\ Abs(a.z - b.z) <= m

\* C24: in every jelly step of a tick that took delta ms, the velocities
\* the step leaves have every component in [-maxVelocity, maxVelocity] and
\* every position component moves by at most maxVelocity * delta; a tick
\* that calls no sculpt ends with exactly these buffers.
C24_VelocityClamped ==
    [][ (last'.op = "tick" /\ PhysicsRuns(currentMaterial, velocities))
        => \E d \in StallDeltas :
             /\ Tick(d)
             /\ LET v1 == PhysicsVelocities(positions, velocities[1],
                                            restPositions[1], d)
                    p1 == PhysicsPositions(positions, v1, d)
                IN  /\ \A i \in 1..Len(v1) :
                         Within(v1[i], Vtx(0, 0, 0), MaxVelocity)
                    /\ \A i \in 1..Len(p1) :
                         Within(p1[i], positions[i],
                                TDiv(MaxVelocity * d, 1000))
                    /\ ~SculptCalled(mouse, isMouseDown,
                                     isInteractingWithGUI)
                         => /\ velocities' = Some(v1)
                            /\ positions' = p1 ]_vars

\* A tick without a sculpt call has just left a velocity component at
\* maxVelocity: the spring and the damping had taken it beyond, and the
\* vertex has moved under it.
C24_Witness ==
    /\ last.op = "tick"
    /\ last.ret = "idle"
    /\ IsJelly(currentMaterial)
    /\ velocities # Null
    /\ \E i \in 1..Len(positions) :
         /\ velocities[1][i].x = MaxVelocity
         /\ positions[i].x > restPositions[1][i].x

-----------------------------------------------------------------------------
(* C25 *)

\* C25: a sculpt call made under the jelly material leaves, for every vertex
\* within the influence radius, the vertex's new x and z in restPositions and
\* the radial impulse (targetRadius - currentRadius) * factor / 2 added to
\* its velocity; a sculpt call made under another material changes neither
\* restPositions nor velocities.
C25_SculptElasticBuffers ==
    [][ ( /\ Tick(FrameMs)
          /\ SculptCalled(mouse, isMouseDown, isInteractingWithGUI) )
        => IF IsJelly(currentMaterial)
           THEN /\ restPositions' # Null
                /\ velocities' # Null
                /\ \A i \in 1..Len(positions) :
                     InRange(BeforeSculpt[i], mouse, sculptRadius)
                     => LET imp == Impulse(BeforeSculpt[i], mouse)
                            v0 == BeforeSculptVelocities[1][i]
                        IN  /\ restPositions'[1][i].x = positions'[i].x
                            /\ restPositions'[1][i].z = positions'[i].z
                            /\ velocities'[1][i]
                                 = Vtx(v0.x + imp.x, v0.y, v0.z + imp.z)
           ELSE /\ restPositions' = restPositions
                /\ velocities' = velocities ]_vars

-----------------------------------------------------------------------------
(* C26 *)

\* C26: a tick whose pointer ray misses the reference plane, or hits it
\* outside the band, hides the cursor and calls no sculpt (the vertex buffer
\* and the sculpting flag stay as they are); a tick calls sculpt only with
\* the pointer pressed, not over the settings menu, and a hit point inside
\* the band.
C26_NoHitNoSculpt ==
    [][ Tick(FrameMs)
        => /\ (~mouse.hit \/ ~InBand(mouse))
                => /\ ~cursorVisible'
                   /\ last'.ret = "idle"
                   /\ positions' = positions
                   /\ isSculpting' = isSculpting
           /\ last'.ret \in {"sculpted", "missed"}
                => /\ isMouseDown
                   /\ ~isInteractingWithGUI
                   /\ mouse.hit
                   /\ InBand(mouse) ]_vars

\* A tick has run with the pointer pressed, away from the menu, and the hit
\* point on the plane but outside the band: the cursor is hidden and sculpt
\* was not called.
C26_Witness ==
    /\ last.op = "tick"
    /\ last.ret = "idle"
    /\ isMouseDown
    /\ ~isInteractingWithGUI
    /\ mouse.hit
    /\ ~InBand(mouse)
    /\ ~cursorVisible

-----------------------------------------------------------------------------
(* C27 *)

\* C27: the snapshot a release pushes is a copy of the vertex buffer as the
\* gesture's sculpt calls left it; under a material that is not jelly, an
\* undo clicked while the vertex buffer still equals the newest snapshot (no
\* sculpt call since the gesture was committed) pops that snapshot and
\* leaves the vertex buffer as it was.
C27_UndoAfterCommitKeepsBuffer ==
    [][ /\ last'.ret = "saved"
            => /\ historyStack' # <<>>
               /\ historyStack'[Len(historyStack')] = positions'
               /\ positions' = positions
        /\ ( /\ ClickUndo
             /\ ~IsJelly(currentMaterial)
             /\ historyStack # <<>>
             /\ historyStack[Len(historyStack)] = positions )
            => /\ positions' = positions
               /\ historyStack' = Front(historyStack) ]_vars

\* An undo has popped the snapshot of the second of two gestures that
\* deformed the mesh: the vertex buffer still holds that gesture's result,
\* which differs from the snapshot left on top and from the unsculpted mesh.
C27_Witness ==
    /\ last.op = "undo"
    /\ last.ret = "true"
    /\ ~IsJelly(currentMaterial)
    /\ historyStack # <<>>
    /\ positions # historyStack[Len(historyStack)]
    /\ historyStack[Len(historyStack)] # originalPositions

-----------------------------------------------------------------------------
(* C28 *)

\* C28: every snapshot on the history stack has as many vertices as the
\* vertex buffer has now.
C28_SnapshotLengths ==
    \A i \in 1..Len(historyStack) : Len(historyStack[i]) = Len(positions)

\* A release has saved the snapshot of a gesture that began on a mesh with
\* another number of vertices: the shape was changed while the pointer was
\* pressed.
C28_Witness ==
    /\ last.ret = "saved"
    /\ historyStack # <<>>
    /\ last.before # Null
    /\ Len(last.before[1]) # Len(positions)

-----------------------------------------------------------------------------
(* C29 *)

\* C29: a touchcancel pushes no snapshot and leaves the history stack and
\* the vertex buffer as they are, whatever the gesture's duration and
\* whether or not it deformed the mesh, and it leaves both the pressed flag
\* and the sculpting flag false.
C29_TouchCancelDiscards ==
    [][ last'.op = "touchcancel"
        => /\ historyStack' = historyStack
           /\ positions' = positions
           /\ ~isMouseDown'
           /\ ~isSculpting' ]_vars

\* A touchcancel has ended a gesture that lasted more than the threshold and
\* deformed the mesh: the stack is as deep as before, the deformation is in
\* the vertex buffer and both flags are false.
C29_Witness ==
    /\ last.op = "touchcancel"
    /\ last.long
    /\ last.touched
    /\ last.before # Null
    /\ last.before # Some(positions)
    /\ Len(historyStack) = last.depth
    /\ ~isMouseDown
    /\ ~isSculpting

-----------------------------------------------------------------------------
(* C30 *)

\* C30: between handlers and ticks, the sculpting flag is true only while
\* the pressed flag is true: only a tick that runs while the pointer is
\* pressed sets it, and every step that clears the pressed flag leaves it
\* false.
C30_SculptingOnlyWhilePressed ==
    [][ /\ isSculpting' => isMouseDown'
        /\ (~isSculpting /\ isSculpting')
             => (last'.op = "tick" /\ isMouseDown)
        /\ (isMouseDown /\ ~isMouseDown') => ~isSculpting' ]_vars

\* A touchcancel has ended a gesture whose sculpt calls wrote to the mesh,
\* and both flags are false.
C30_Witness ==
    /\ last.op = "touchcancel"
    /\ last.touched
    /\ ~isSculpting
    /\ ~isMouseDown
    /\ positions # originalPositions

====
